---- MODULE Spec2Model ----
(***************************************************************************)
(* A model of the politeness styler of eubinecto/politetune:               *)
(*   src/politely/processors.py    class Styler (the current pipeline)     *)
(*   src/politetune/processors.py  class Tuner  (the legacy pipeline)      *)
(* A Python str is a sequence of one-character strings; a dict is the      *)
(* sequence of its (key, value) entries in insertion order.                *)
(***************************************************************************)
EXTENDS Integers, Sequences, FiniteSets, TLC

VARIABLES
    cls,                    \* the class of the long-lived object: "Styler" or "Tuner"
    RULES,                  \* class attribute RULES: listener -> environ -> politeness
    HONORIFICS,             \* class attribute HONORIFICS: entries <<key, level -> replacement>>
    ABBREVIATIONS,          \* class attribute ABBREVIATIONS: entries <<key, val>>
    IRREGULARS,             \* class attribute IRREGULARS: entries <<key, val>>
    args,                   \* self.args (Styler) / self.sent, self.listener, self.visibility (Tuner)
    out,                    \* self.out
    logs,                   \* self.logs
    history_conjugations,   \* self.history_conjugations (Tuner: self.history_honorifics)
    history_abbreviations,  \* self.history_abbreviations
    history_irregulars,     \* self.history_irregulars
    pc,                     \* per caller: index of the next step of the chain, 0 outside a call
    status,                 \* per caller: "idle", "running", "done" or "failed"
    call,                   \* per caller: the arguments of its __call__ (its locals)
    ret,                    \* per caller: the value __call__ returned
    err,                    \* per caller: the exception __call__ raised
    outcomes,               \* the outcomes of the invocations completed so far, oldest first
    fn_in,                  \* the arguments of a direct call of a static or stage method
    fn_out                  \* the result of that call

obj_vars == <<args, out, logs, history_conjugations, history_abbreviations, history_irregulars>>
table_vars == <<cls, RULES, HONORIFICS, ABBREVIATIONS, IRREGULARS>>
caller_vars == <<pc, status, call, ret, err, outcomes>>
fn_vars == <<fn_in, fn_out>>
vars == <<table_vars, obj_vars, caller_vars, fn_vars>>

None == [kind |-> "None"]
Str(s) == [kind |-> "str", s |-> s]
Tokens(toks) == [kind |-> "tokens", toks |-> toks]

----------------------------------------------------------------------------
(* Python str operations *)

\* s[i:] for a 1-based i
Tail_from(s, i) == SubSeq(s, i, Len(s))

\* s.startswith(prefix) at 1-based position i
StartsAt(s, sub, i) == i + Len(sub) - 1 <= Len(s) /\ SubSeq(s, i, i + Len(sub) - 1) = sub

\* sub in s
Contains(s, sub) == \E i \in 1..(Len(s) + 1) : StartsAt(s, sub, i)

\* s.endswith(suffix)
EndsWith(s, suffix) == Len(suffix) <= Len(s) /\ StartsAt(s, suffix, Len(s) - Len(suffix) + 1)

\* s.replace(old, new): every non-overlapping occurrence, leftmost first (old is not empty)
RECURSIVE Replace(_, _, _)
Replace(s, old, new) ==
    IF s = <<>> THEN <<>>
    ELSE IF StartsAt(s, old, 1) THEN new \o Replace(Tail_from(s, Len(old) + 1), old, new)
    ELSE <<Head(s)>> \o Replace(Tail(s), old, new)

\* sep.join(parts)
RECURSIVE Join(_, _)
Join(parts, sep) ==
    IF parts = <<>> THEN <<>>
    ELSE IF Len(parts) = 1 THEN parts[1]
    ELSE parts[1] \o sep \o Join(Tail(parts), sep)

\* s.split(c) for a one-character separator c: always at least one part
RECURSIVE Split(_, _)
Split(s, c) ==
    IF \A i \in 1..Len(s) : s[i] # c THEN <<s>>
    ELSE LET k == CHOOSE i \in 1..Len(s) : s[i] = c /\ \A j \in 1..(i - 1) : s[j] # c
         IN  <<SubSeq(s, 1, k - 1)>> \o Split(Tail_from(s, k + 1), c)

\* s.strip(): whitespace removed at both ends
IsSpace(c) == c \in {" ", "\n", "\t"}
RECURSIVE LStrip(_)
LStrip(s) == IF s # <<>> /\ IsSpace(Head(s)) THEN LStrip(Tail(s)) ELSE s
RECURSIVE RStrip(_)
RStrip(s) == IF s # <<>> /\ IsSpace(s[Len(s)]) THEN RStrip(SubSeq(s, 1, Len(s) - 1)) ELSE s
Strip(s) == RStrip(LStrip(s))

\* [f(x) for x in xs]
RECURSIVE Concat(_)
Concat(parts) == IF parts = <<>> THEN <<>> ELSE Head(parts) \o Concat(Tail(parts))

----------------------------------------------------------------------------
(* Styler.matched: re.match(f"(^|.*\\+){re.escape(pattern)}(\\+.*|$)", string) *)

\* "." of a regular expression matches every character but the line feed
IsDot(c) == c # "\n"

\* the group (^|.*\+) ending right before 0-based offset i
Group1(string, i) ==
    \/ i = 0
    \/ i >= 1 /\ string[i] = "+" /\ \A k \in 1..(i - 1) : IsDot(string[k])

\* re.escape(pattern): every character of the pattern stands for itself
Literal(pattern, string, i) == StartsAt(string, pattern, i + 1)

\* the group (\+.*|$) starting at 0-based offset j; "$" also matches before a final line feed
Group3(string, j) ==
    \/ j < Len(string) /\ string[j + 1] = "+"
    \/ j = Len(string)
    \/ j = Len(string) - 1 /\ string[Len(string)] = "\n"

\* a plausible slip: "pattern in string", with no anchoring on the "+" boundaries
matched_unanchored(pattern, string) == Contains(string, pattern)

matched(pattern, string) ==
    \E i \in 0..Len(string) :
        Group1(string, i) /\ Literal(pattern, string, i) /\ Group3(string, i + Len(pattern))

----------------------------------------------------------------------------
(* The token model: what the external analyzer hands over *)

\* grammatical tags
VV == <<"V", "V">>
EF == <<"E", "F">>
SF == <<"S", "F">>
SL == <<"S", "L">>
SW == <<"S", "W">>
JX == <<"J", "X">>
NNG == <<"N", "N", "G">>

Morph(lex, tag) == [lex |-> lex, tag |-> tag]
Token(lex, morphs) == [lex |-> lex, morphs |-> morphs]

\* str(morph)
MorphStr(m) == m.lex \o <<"/">> \o m.tag

\* list(map(str, token.morphs))
MorphStrs(token) == [i \in 1..Len(token.morphs) |-> MorphStr(token.morphs[i])]

\* "+".join(map(str, token.morphs)): the joined signature of a token
Sig(token) == Join(MorphStrs(token), <<"+">>)

\* the signatures of a token list, in order
Sigs(toks) == [i \in 1..Len(toks) |-> Sig(toks[i])]

\* a token with a morpheme whose tag is EF
HasEFTag(token) == \E i \in 1..Len(token.morphs) : token.morphs[i].tag = EF

----------------------------------------------------------------------------
(* The external analyzer, as a small deterministic lexicon: a text is split  *)
(* on blanks, a word is its stem's morphemes followed by one SF morpheme per *)
(* trailing punctuation mark.                                                *)

IsPunct(c) == c \in {".", "?", "!"}

RECURSIVE Stem(_)
Stem(w) == IF w # <<>> /\ IsPunct(w[Len(w)]) THEN Stem(SubSeq(w, 1, Len(w) - 1)) ELSE w

Lexicon(stem) ==
    CASE stem = <<>> -> <<>>
      [] stem = <<"h", "e">> -> <<Morph(<<"h">>, VV), Morph(<<"e">>, EF)>>
      [] stem = <<"h", "s">> -> <<Morph(<<"h">>, VV), Morph(<<"s">>, EF)>>
      [] stem = <<"h", "a">> -> <<Morph(<<"h">>, VV), Morph(<<"a">>, EF)>>
      [] stem = <<"E", "F">> -> <<Morph(<<"E", "F">>, SL)>>
      [] stem = <<"+">> -> <<Morph(<<"+">>, SW)>>
      [] OTHER -> <<Morph(stem, NNG)>>

AnalyzeWord(w) ==
    Token(w, Lexicon(Stem(w))
             \o [i \in 1..(Len(w) - Len(Stem(w))) |-> Morph(<<w[Len(Stem(w)) + i]>>, SF)])

khaiii_analyze(text) ==
    LET words == SelectSeq(Split(text, " "), LAMBDA w : w # <<>>)
    IN  [i \in 1..Len(words) |-> AnalyzeWord(words[i])]

----------------------------------------------------------------------------
(* Exceptions *)

NoError == [kind |-> "none", payload |-> <<>>]
Raised(kind, payload) == [kind |-> kind, payload |-> payload]

----------------------------------------------------------------------------
(* Styler.check, lines 69-88 *)

\* "EF" in "+".join(map(str, token.morphs)): a test on the text of the signature
IsEF(sig) == Contains(sig, EF)

\* efs: the signatures of the tokens that hold "EF", in token order
Efs(toks) == SelectSeq(Sigs(toks), LAMBDA sig : IsEF(sig))

\* for pattern in self.HONORIFICS.keys(): if self.matched(pattern, ef): break
Supported(ef, honorifics) == \E k \in 1..Len(honorifics) : matched(honorifics[k].key, ef)

\* a plausible slip: the second check left out, an EF token is enough to pass
check_result_no_coverage(toks, honorifics) ==
    IF Efs(toks) = <<>> THEN Raised("EFNotIncludedError", Join(Sigs(toks), <<"|">>))
    ELSE NoError

\* what check raises, or NoError when it returns self
check_result(toks, honorifics) ==
    LET efs == Efs(toks)
        bad == {i \in 1..Len(efs) : ~Supported(efs[i], honorifics)}
    IN  IF efs = <<>> THEN Raised("EFNotIncludedError", Join(Sigs(toks), <<"|">>))
        ELSE IF bad # {} THEN Raised("EFNotSupportedError", efs[CHOOSE i \in bad : \A j \in bad : i <= j])
        ELSE NoError

----------------------------------------------------------------------------
(* Styler.conjugate, lines 90-109 *)

\* self.RULES[listener][environ] raises KeyError when either key is missing
HasRule(rules, listener, environ) ==
    listener \in DOMAIN rules /\ environ \in DOMAIN rules[listener]

Politeness(rules, listener, environ) == rules[listener][environ].politeness

\* "".join([morph.split("/")[0] for morph in morphs])
Surface(morphs) == Concat([i \in 1..Len(morphs) |-> Split(morphs[i], "/")[1]])

\* the loop over self.HONORIFICS.keys() from entry k on, for one token: the working
\* signature and the pairs recorded
RECURSIVE TuneFrom(_, _, _, _, _)
TuneFrom(tuned, hist, k, honorifics, politeness) ==
    IF k > Len(honorifics) THEN [tuned |-> tuned, hist |-> hist]
    ELSE LET pattern == honorifics[k].key
             honorific == honorifics[k].val[politeness]
         IN  IF matched(pattern, tuned)
             THEN TuneFrom(Replace(tuned, pattern, honorific),
                           hist \cup {<<pattern, honorific>>}, k + 1, honorifics, politeness)
             ELSE TuneFrom(tuned, hist, k + 1, honorifics, politeness)

\* if before != after: out.append(after) else: out.append(lex)
Emit(lex, morphs, tuned) ==
    LET before == Surface(morphs)
        after == Surface(Split(tuned, "+"))
    IN  IF before # after THEN after ELSE lex

\* the loop over lex2morphs from token i on: the words emitted and the pairs recorded
RECURSIVE ConjugateFrom(_, _, _, _, _)
ConjugateFrom(toks, i, hist, honorifics, politeness) ==
    IF i > Len(toks) THEN [words |-> <<>>, hist |-> hist]
    ELSE LET morphs == MorphStrs(toks[i])
             t == TuneFrom(Join(morphs, <<"+">>), hist, 1, honorifics, politeness)
             rest == ConjugateFrom(toks, i + 1, t.hist, honorifics, politeness)
         IN  [words |-> <<Emit(toks[i].lex, morphs, t.tuned)>> \o rest.words, hist |-> rest.hist]

----------------------------------------------------------------------------
(* Tuner.apply_honorifics, lines 72-89 *)

\* ["+".join(morphs[i:j]) for i, j in itertools.combinations(range(len(morphs) + 1), 2)]
Substrings(morphs) ==
    {Join(SubSeq(morphs, c[1] + 1, c[2]), <<"+">>) :
        c \in {d \in (0..Len(morphs)) \X (0..Len(morphs)) : d[1] < d[2]}}

Keys(table) == {table[k].key : k \in 1..Len(table)}

\* the unconditional loop over self.HONORIFICS.keys() from entry k on
RECURSIVE TuneAllFrom(_, _, _, _, _)
TuneAllFrom(tuned, hist, k, honorifics, politeness) ==
    IF k > Len(honorifics) THEN [tuned |-> tuned, hist |-> hist]
    ELSE LET pattern == honorifics[k].key
             honorific == honorifics[k].val[politeness]
         IN  TuneAllFrom(Replace(tuned, pattern, honorific),
                         hist \cup {<<pattern, honorific>>}, k + 1, honorifics, politeness)

RECURSIVE HonorificsFrom(_, _, _, _, _)
HonorificsFrom(toks, i, hist, honorifics, politeness) ==
    IF i > Len(toks) THEN [words |-> <<>>, hist |-> hist]
    ELSE LET morphs == MorphStrs(toks[i])
             hit == Substrings(morphs) \cap Keys(honorifics) # {}
             t == IF hit THEN TuneAllFrom(Join(morphs, <<"+">>), hist, 1, honorifics, politeness)
                         ELSE [tuned |-> <<>>, hist |-> hist]
             word == IF hit THEN Surface(Split(t.tuned, "+")) ELSE toks[i].lex
             rest == HonorificsFrom(toks, i + 1, t.hist, honorifics, politeness)
         IN  [words |-> <<word>> \o rest.words, hist |-> rest.hist]

----------------------------------------------------------------------------
(* Styler.abbreviate / Styler.apply_irregulars, lines 111-123;              *)
(* Tuner.apply_abbreviations / Tuner.apply_irregulars, lines 91-101         *)

\* the loop over table.items() from entry k on: the text and the pairs recorded
RECURSIVE ApplyFrom(_, _, _, _)

\* a plausible slip: the replacement made, the pair not recorded
ApplyFrom_unrecorded(text, hist, k, table) ==
    IF k > Len(table) THEN [text |-> text, hist |-> hist]
    ELSE IF Contains(text, table[k].key)
         THEN ApplyFrom(Replace(text, table[k].key, table[k].val), hist, k + 1, table)
         ELSE ApplyFrom(text, hist, k + 1, table)

ApplyFrom(text, hist, k, table) ==
    IF k > Len(table) THEN [text |-> text, hist |-> hist]
    ELSE IF Contains(text, table[k].key)
         THEN ApplyFrom(Replace(text, table[k].key, table[k].val),
                        hist \cup {<<table[k].key, table[k].val>>}, k + 1, table)
         ELSE ApplyFrom(text, hist, k + 1, table)

----------------------------------------------------------------------------
(* preprocess and postprocess *)

\* Styler.preprocess, lines 58-62
Styler_preprocess_text(sent) ==
    LET o == Strip(sent)
    IN  IF ~EndsWith(o, <<"?">>) /\ ~EndsWith(o, <<"!">>)
        THEN (IF ~EndsWith(o, <<".">>) THEN o \o <<".">> ELSE o)
        ELSE o

\* Tuner.preprocess, lines 65-66
Tuner_preprocess_text(sent) == IF ~EndsWith(sent, <<".">>) THEN sent \o <<".">> ELSE sent

\* Tuner.postprocess, lines 103-104: self.out[:-1] unless the sentence ended with "."
Tuner_postprocess_text(sent, o) == IF EndsWith(sent, <<".">>) THEN o ELSE SubSeq(o, 1, Len(o) - 1)

----------------------------------------------------------------------------
(* The rule tables the model is checked with, and the inputs of a call *)

eEF == <<"e", "/", "E", "F">>
sEF == <<"s", "/", "E", "F">>
eEFyJX == <<"e", "/", "E", "F", "+", "y", "/", "J", "X">>

\* level 1: casual -e, level 2: polite -e+y, level 3: formal -s
Levels == <<eEF, eEFyJX, sEF>>

HonorificTables ==
    { <<[key |-> eEF, val |-> Levels], [key |-> sEF, val |-> Levels]>>,
      <<[key |-> sEF, val |-> Levels], [key |-> eEF, val |-> Levels]>> }

AbbreviationTables ==
    { <<[key |-> <<"h", "e", "y">>, val |-> <<"h", "y">>]>>,
      <<[key |-> <<"h", "e", "y">>, val |-> <<"h", "y">>], [key |-> <<"h", "y">>, val |-> <<"y">>]>> }

IrregularTables ==
    { <<[key |-> <<"h", "s">>, val |-> <<"h", "p", "s">>], [key |-> <<"p", "s", ".">>, val |-> <<"p", ".">>]>>,
      <<[key |-> <<"h", "y">>, val |-> <<"h", "e", "y">>]>> }

RuleTables ==
    { [friend |-> [private |-> [politeness |-> 1], public |-> [politeness |-> 2]],
       boss |-> [public |-> [politeness |-> 3]]] }

Listeners == {"friend", "boss", "alien"}
Environs == {"private", "public"}

Sentences ==
    { <<"h", "e">>, <<"h", "s", ".">>, <<"h", "a">>, <<"n">>, <<"E", "F">>,
      <<"E", "F", " ", "h", "e">>, <<"+", " ", "h", "e">>, <<" ", "h", "e", "?">> }

Inputs == [sent : Sentences, listener : Listeners, environ : Environs]

\* the number of invocations made on the one object
MaxCalls == 3

Callers == {1, 2}

----------------------------------------------------------------------------
(* __call__: the chain of steps, Styler lines 30-44, Tuner lines 30-54 *)

\* a plausible slip: two stages of the chain in the wrong order
StylerChain_swapped ==
    <<"clear", "preprocess", "analyze", "check", "log", "abbreviate", "log",
      "conjugate", "log", "apply_irregulars", "log">>

\* a plausible slip: the abbreviations applied once more to the irregular pass's text
StylerChain_reabbreviated ==
    <<"clear", "preprocess", "analyze", "check", "log", "conjugate", "log",
      "abbreviate", "log", "apply_irregulars", "abbreviate", "log">>

StylerChain ==
    <<"clear", "preprocess", "analyze", "check", "log", "conjugate", "log",
      "abbreviate", "log", "apply_irregulars", "log">>

TunerChain ==
    <<"clear", "preprocess", "analyze_morphemes", "log", "apply_honorifics", "log",
      "apply_abbreviations", "log", "apply_irregulars", "log", "postprocess">>

Chain == IF cls = "Styler" THEN StylerChain ELSE TunerChain

At(t, steps) == status[t] = "running" /\ pc[t] \in 1..Len(Chain) /\ Chain[pc[t]] \in steps

Advance(t) ==
    /\ pc' = [pc EXCEPT ![t] = @ + 1]
    /\ UNCHANGED <<status, call, ret, err, outcomes>>

\* an exception leaves __call__ at the step that raised it
Fail(t, e) ==
    /\ status' = [status EXCEPT ![t] = "failed"]
    /\ err' = [err EXCEPT ![t] = e]
    /\ outcomes' = Append(outcomes, "failed")
    /\ UNCHANGED <<pc, call, ret>>

Running == {u \in Callers : status[u] = "running"}

\* Styler line 32: self.args.update(locals()); Tuner lines 32-34
Call(t, in) ==
    /\ status[t] # "running"
    /\ Len(outcomes) + Cardinality(Running) < MaxCalls
    /\ args' = in
    /\ call' = [call EXCEPT ![t] = in]
    /\ pc' = [pc EXCEPT ![t] = 1]
    /\ status' = [status EXCEPT ![t] = "running"]
    /\ ret' = [ret EXCEPT ![t] = None]
    /\ err' = [err EXCEPT ![t] = NoError]
    /\ UNCHANGED <<out, logs, history_conjugations, history_abbreviations, history_irregulars,
                   outcomes, table_vars, fn_vars>>

\* a plausible slip: the history list left as it is
clear_keeps_logs(t) ==
    /\ At(t, {"clear"})
    /\ history_conjugations' = {}
    /\ history_abbreviations' = {}
    /\ history_irregulars' = {}
    /\ Advance(t)
    /\ UNCHANGED <<args, out, logs, table_vars, fn_vars>>

\* a plausible slip: the substitution sets left as they are
clear_keeps_sets(t) ==
    /\ At(t, {"clear"})
    /\ logs' = <<>>
    /\ Advance(t)
    /\ UNCHANGED <<args, out, history_conjugations, history_abbreviations, history_irregulars,
                   table_vars, fn_vars>>

\* Styler.clear, lines 47-52; Tuner.clear, lines 56-60
clear(t) ==
    /\ At(t, {"clear"})
    /\ logs' = <<>>
    /\ history_conjugations' = {}
    /\ history_abbreviations' = {}
    /\ history_irregulars' = {}
    /\ Advance(t)
    /\ UNCHANGED <<args, out, table_vars, fn_vars>>

\* Styler.log, lines 54-56; Tuner.log, lines 62-63
log(t) ==
    /\ At(t, {"log"})
    /\ logs' = Append(logs, out)
    /\ Advance(t)
    /\ UNCHANGED <<args, out, history_conjugations, history_abbreviations, history_irregulars,
                   table_vars, fn_vars>>

\* Styler.preprocess, lines 58-62
preprocess(t) ==
    /\ cls = "Styler"
    /\ At(t, {"preprocess"})
    /\ out' = Str(Styler_preprocess_text(args.sent))
    /\ Advance(t)
    /\ UNCHANGED <<args, logs, history_conjugations, history_abbreviations, history_irregulars,
                   table_vars, fn_vars>>

\* Tuner.preprocess, lines 65-66
Tuner_preprocess(t) ==
    /\ cls = "Tuner"
    /\ At(t, {"preprocess"})
    /\ out' = Str(Tuner_preprocess_text(args.sent))
    /\ Advance(t)
    /\ UNCHANGED <<args, logs, history_conjugations, history_abbreviations, history_irregulars,
                   table_vars, fn_vars>>

\* Styler.analyze, lines 64-67; Tuner.analyze_morphemes, lines 68-70.
\* The analyzer takes a str: anything else raises.
analyze(t) ==
    /\ At(t, {"analyze", "analyze_morphemes"})
    /\ IF out.kind = "str"
       THEN out' = Tokens(khaiii_analyze(out.s)) /\ Advance(t)
       ELSE Fail(t, Raised("AttributeError", <<>>)) /\ UNCHANGED out
    /\ UNCHANGED <<args, logs, history_conjugations, history_abbreviations, history_irregulars,
                   table_vars, fn_vars>>

\* Styler.check, lines 69-88. Over a str the loop meets characters, which have no morphs.
check(t) ==
    /\ At(t, {"check"})
    /\ IF out.kind = "tokens"
       THEN IF check_result(out.toks, HONORIFICS) = NoError
            THEN Advance(t)
            ELSE Fail(t, check_result(out.toks, HONORIFICS))
       ELSE Fail(t, Raised("AttributeError", <<>>))
    /\ UNCHANGED <<obj_vars, table_vars, fn_vars>>

MissingKey(rules, listener, environ) == IF listener \in DOMAIN rules THEN environ ELSE listener

\* a plausible slip: a silent fallback to the casual level when the rule is missing
conjugate_default_level(t) ==
    /\ At(t, {"conjugate"})
    /\ IF out.kind # "tokens"
       THEN /\ Fail(t, Raised("AttributeError", <<>>))
            /\ UNCHANGED <<out, history_conjugations>>
       ELSE LET level == IF HasRule(RULES, args.listener, args.environ)
                         THEN Politeness(RULES, args.listener, args.environ) ELSE 1
                r == ConjugateFrom(out.toks, 1, history_conjugations, HONORIFICS, level)
            IN  /\ out' = Str(Join(r.words, <<" ">>))
                /\ history_conjugations' = r.hist
                /\ Advance(t)
    /\ UNCHANGED <<args, logs, history_abbreviations, history_irregulars, table_vars, fn_vars>>

\* Styler.conjugate, lines 90-109. Line 91 raises KeyError before anything is written.
conjugate(t) ==
    /\ At(t, {"conjugate"})
    /\ IF ~HasRule(RULES, args.listener, args.environ)
       THEN /\ Fail(t, Raised("KeyError", <<MissingKey(RULES, args.listener, args.environ)>>))
            /\ UNCHANGED <<out, history_conjugations>>
       ELSE IF out.kind # "tokens"
       THEN /\ Fail(t, Raised("AttributeError", <<>>))
            /\ UNCHANGED <<out, history_conjugations>>
       ELSE LET r == ConjugateFrom(out.toks, 1, history_conjugations, HONORIFICS,
                                   Politeness(RULES, args.listener, args.environ))
            IN  /\ out' = Str(Join(r.words, <<" ">>))
                /\ history_conjugations' = r.hist
                /\ Advance(t)
    /\ UNCHANGED <<args, logs, history_abbreviations, history_irregulars, table_vars, fn_vars>>

\* Tuner.apply_honorifics, lines 72-89
apply_honorifics(t) ==
    /\ At(t, {"apply_honorifics"})
    /\ IF ~HasRule(RULES, args.listener, args.environ)
       THEN /\ Fail(t, Raised("KeyError", <<MissingKey(RULES, args.listener, args.environ)>>))
            /\ UNCHANGED <<out, history_conjugations>>
       ELSE IF out.kind # "tokens"
       THEN /\ Fail(t, Raised("AttributeError", <<>>))
            /\ UNCHANGED <<out, history_conjugations>>
       ELSE LET r == HonorificsFrom(out.toks, 1, history_conjugations, HONORIFICS,
                                    Politeness(RULES, args.listener, args.environ))
            IN  /\ out' = Str(Join(r.words, <<" ">>))
                /\ history_conjugations' = r.hist
                /\ Advance(t)
    /\ UNCHANGED <<args, logs, history_abbreviations, history_irregulars, table_vars, fn_vars>>

\* a plausible slip: the entries applied are taken out of the table
abbreviate_consuming(t) ==
    /\ At(t, {"abbreviate", "apply_abbreviations"})
    /\ IF out.kind = "str"
       THEN LET r == ApplyFrom(out.s, history_abbreviations, 1, ABBREVIATIONS)
            IN  /\ out' = Str(r.text)
                /\ history_abbreviations' = r.hist
                /\ ABBREVIATIONS' = SelectSeq(ABBREVIATIONS, LAMBDA e : <<e.key, e.val>> \notin r.hist)
       ELSE UNCHANGED <<out, history_abbreviations, ABBREVIATIONS>>
    /\ Advance(t)
    /\ UNCHANGED <<args, logs, history_conjugations, history_irregulars,
                   cls, RULES, HONORIFICS, IRREGULARS, fn_vars>>

\* Styler.abbreviate, lines 111-116; Tuner.apply_abbreviations, lines 91-95.
\* Over a token list "key in self.out" is a membership test, which no key passes.
abbreviate(t) ==
    /\ At(t, {"abbreviate", "apply_abbreviations"})
    /\ IF out.kind = "str"
       THEN LET r == ApplyFrom(out.s, history_abbreviations, 1, ABBREVIATIONS)
            IN  out' = Str(r.text) /\ history_abbreviations' = r.hist
       ELSE UNCHANGED <<out, history_abbreviations>>
    /\ Advance(t)
    /\ UNCHANGED <<args, logs, history_conjugations, history_irregulars, table_vars, fn_vars>>

\* Styler.apply_irregulars, lines 118-123; Tuner.apply_irregulars, lines 97-101
apply_irregulars(t) ==
    /\ At(t, {"apply_irregulars"})
    /\ IF out.kind = "str"
       THEN LET r == ApplyFrom(out.s, history_irregulars, 1, IRREGULARS)
            IN  out' = Str(r.text) /\ history_irregulars' = r.hist
       ELSE UNCHANGED <<out, history_irregulars>>
    /\ Advance(t)
    /\ UNCHANGED <<args, logs, history_conjugations, history_abbreviations, table_vars, fn_vars>>

\* a plausible slip: the output returned as the last stage left it
postprocess_keeps_out(t) ==
    /\ At(t, {"postprocess"})
    /\ Advance(t)
    /\ UNCHANGED <<obj_vars, table_vars, fn_vars>>

\* Tuner.postprocess, lines 103-104
postprocess(t) ==
    /\ At(t, {"postprocess"})
    /\ out' = IF out.kind = "str" THEN Str(Tuner_postprocess_text(args.sent, out.s)) ELSE out
    /\ Advance(t)
    /\ UNCHANGED <<args, logs, history_conjugations, history_abbreviations, history_irregulars,
                   table_vars, fn_vars>>

\* return self.out, Styler line 44, Tuner line 39
Return(t) ==
    /\ status[t] = "running"
    /\ pc[t] = Len(Chain) + 1
    /\ ret' = [ret EXCEPT ![t] = out]
    /\ status' = [status EXCEPT ![t] = "done"]
    /\ outcomes' = Append(outcomes, "done")
    /\ UNCHANGED <<pc, call, err, obj_vars, table_vars, fn_vars>>

----------------------------------------------------------------------------
(* One object, one caller, one invocation after the other *)

\* no argument registered yet: the fields are written by __call__ before any step reads them
NoArgs == [sent |-> <<>>, listener |-> "", environ |-> ""]

\* Styler.__init__, lines 20-28; Tuner.__init__, lines 17-28
Fresh ==
    /\ args = NoArgs
    /\ out = None
    /\ logs = <<>>
    /\ history_conjugations = {}
    /\ history_abbreviations = {}
    /\ history_irregulars = {}

\* the class attributes, Styler lines 15-18, Tuner lines 12-15
Loaded ==
    /\ RULES \in RuleTables
    /\ HONORIFICS \in HonorificTables
    /\ ABBREVIATIONS \in AbbreviationTables
    /\ IRREGULARS \in IrregularTables

Idle ==
    /\ pc = [t \in Callers |-> 0]
    /\ status = [t \in Callers |-> "idle"]
    /\ call = [t \in Callers |-> NoArgs]
    /\ ret = [t \in Callers |-> None]
    /\ err = [t \in Callers |-> NoError]
    /\ outcomes = <<>>

Init ==
    /\ cls \in {"Styler", "Tuner"}
    /\ Loaded
    /\ Fresh
    /\ Idle
    /\ fn_in = None
    /\ fn_out = None

Next ==
    \/ \E in \in Inputs : Call(1, in)
    \/ clear(1)
    \/ preprocess(1)
    \/ Tuner_preprocess(1)
    \/ analyze(1)
    \/ check(1)
    \/ log(1)
    \/ conjugate(1)
    \/ apply_honorifics(1)
    \/ abbreviate(1)
    \/ apply_irregulars(1)
    \/ postprocess(1)
    \/ Return(1)

Spec == Init /\ [][Next]_vars

----------------------------------------------------------------------------
(* One invocation on an object fresh from __init__: what __call__ leaves behind *)

Outcome(st, r, e, l, hc, ha, hi) ==
    [status |-> st, ret |-> r, err |-> e, logs |-> l,
     history_conjugations |-> hc, history_abbreviations |-> ha, history_irregulars |-> hi]

\* Styler.__call__, lines 30-44, on Styler.__init__'s state
Styler_alone(in) ==
    LET toks == khaiii_analyze(Styler_preprocess_text(in.sent))
        chk == check_result(toks, HONORIFICS)
        conj == ConjugateFrom(toks, 1, {}, HONORIFICS, Politeness(RULES, in.listener, in.environ))
        abbr == ApplyFrom(Join(conj.words, <<" ">>), {}, 1, ABBREVIATIONS)
        irr == ApplyFrom(abbr.text, {}, 1, IRREGULARS)
    IN  IF chk # NoError THEN Outcome("failed", None, chk, <<>>, {}, {}, {})
        ELSE IF ~HasRule(RULES, in.listener, in.environ)
        THEN Outcome("failed", None,
                     Raised("KeyError", <<MissingKey(RULES, in.listener, in.environ)>>),
                     <<Tokens(toks)>>, {}, {}, {})
        ELSE Outcome("done", Str(irr.text), NoError,
                     <<Tokens(toks), Str(Join(conj.words, <<" ">>)), Str(abbr.text), Str(irr.text)>>,
                     conj.hist, abbr.hist, irr.hist)

\* Tuner.__call__, lines 30-39, on Tuner.__init__'s state
Tuner_alone(in) ==
    LET toks == khaiii_analyze(Tuner_preprocess_text(in.sent))
        conj == HonorificsFrom(toks, 1, {}, HONORIFICS, Politeness(RULES, in.listener, in.environ))
        abbr == ApplyFrom(Join(conj.words, <<" ">>), {}, 1, ABBREVIATIONS)
        irr == ApplyFrom(abbr.text, {}, 1, IRREGULARS)
    IN  IF ~HasRule(RULES, in.listener, in.environ)
        THEN Outcome("failed", None,
                     Raised("KeyError", <<MissingKey(RULES, in.listener, in.environ)>>),
                     <<Tokens(toks)>>, {}, {}, {})
        ELSE Outcome("done", Str(Tuner_postprocess_text(in.sent, irr.text)), NoError,
                     <<Tokens(toks), Str(Join(conj.words, <<" ">>)), Str(abbr.text), Str(irr.text)>>,
                     conj.hist, abbr.hist, irr.hist)

Alone(in) == IF cls = "Styler" THEN Styler_alone(in) ELSE Tuner_alone(in)

\* what caller t has in hand when its invocation ends: its result and the object's histories
Observed(t) ==
    Outcome(status[t], ret[t], err[t], logs,
            history_conjugations, history_abbreviations, history_irregulars)

----------------------------------------------------------------------------
(* Two callers on one Styler, their steps interleaved *)

ConcSentences == { <<"h", "e">>, <<"h", "s", ".">> }

ConcInputs ==
    {in \in [sent : ConcSentences, listener : Listeners, environ : Environs] :
        \A r \in RuleTables : HasRule(r, in.listener, in.environ)}

\* each caller makes one invocation, with a (listener, environ) pair of its own
CallConc(t, in) ==
    /\ status[t] = "idle"
    /\ \A u \in Callers \ {t} :
          status[u] # "idle" => <<call[u].listener, call[u].environ>> # <<in.listener, in.environ>>
    /\ Call(t, in)

\* one Styler and one choice of tables
OneStyler ==
    /\ cls = "Styler"
    /\ RULES = CHOOSE r \in RuleTables : TRUE
    /\ HONORIFICS = <<[key |-> eEF, val |-> Levels], [key |-> sEF, val |-> Levels]>>
    /\ ABBREVIATIONS = <<[key |-> <<"h", "e", "y">>, val |-> <<"h", "y">>]>>
    /\ IRREGULARS = CHOOSE r \in IrregularTables : TRUE
    /\ Fresh
    /\ Idle

InitConc ==
    /\ OneStyler
    /\ fn_in = None
    /\ fn_out = None

NextConc ==
    \E t \in Callers :
        \/ \E in \in ConcInputs : CallConc(t, in)
        \/ clear(t)
        \/ preprocess(t)
        \/ analyze(t)
        \/ check(t)
        \/ log(t)
        \/ conjugate(t)
        \/ abbreviate(t)
        \/ apply_irregulars(t)
        \/ Return(t)

SpecConc == InitConc /\ [][NextConc]_vars

----------------------------------------------------------------------------
(* Styler.matched called on its own *)

Alphabet == {"V", "+", "/", "."}

\* the longest joined signature and the longest pattern tried
MaxSigLen == 4
MaxPatLen == 2

StringsUpTo(n) == UNION {[1..k -> Alphabet] : k \in 0..n}

InitMatch ==
    /\ OneStyler
    /\ fn_out = None
    /\ fn_in \in [kind : {"matched"}, pattern : StringsUpTo(MaxPatLen), string : StringsUpTo(MaxSigLen)]

matched_call ==
    /\ fn_in.kind = "matched"
    /\ fn_out = None
    /\ fn_out' = [kind |-> "bool", v |-> matched(fn_in.pattern, fn_in.string)]
    /\ UNCHANGED <<fn_in, table_vars, obj_vars, caller_vars>>

NextMatch == matched_call

SpecMatch == InitMatch /\ [][NextMatch]_vars

----------------------------------------------------------------------------
(* The conjugation stage called on its own, on any analyzer output *)

StageTokens ==
    { Token(<<"H">>, <<Morph(<<"h">>, VV), Morph(<<"e">>, EF)>>),
      Token(<<"h", "a">>, <<Morph(<<"h">>, VV), Morph(<<"a">>, EF)>>),
      Token(<<"h", "e", "e">>, <<Morph(<<"h", "e">>, EF), Morph(<<"e">>, EF)>>),
      Token(<<"n">>, <<Morph(<<"n">>, NNG)>>),
      Token(<<"+">>, <<Morph(<<"+">>, SW)>>),
      Token(<<"E", "F">>, <<Morph(<<"E", "F">>, SL)>>),
      Token(<<".">>, <<Morph(<<".">>, SF)>>) }

\* the longest token list handed to the stage
MaxTokens == 2

TokenLists == UNION {[1..k -> StageTokens] : k \in 1..MaxTokens}

InitStage ==
    /\ cls = "Styler"
    /\ RULES = CHOOSE r \in RuleTables : TRUE
    /\ HONORIFICS \in HonorificTables
    /\ ABBREVIATIONS = <<[key |-> <<"h", "e", "y">>, val |-> <<"h", "y">>]>>
    /\ IRREGULARS = CHOOSE r \in IrregularTables : TRUE
    /\ Fresh
    /\ Idle
    /\ fn_in \in [kind : {"conjugate"}, toks : TokenLists, politeness : 1..3]
    /\ fn_out = None

\* Styler.conjugate, lines 92-108, with the politeness already resolved
conjugate_call ==
    /\ fn_in.kind = "conjugate"
    /\ fn_out = None
    /\ LET r == ConjugateFrom(fn_in.toks, 1, {}, HONORIFICS, fn_in.politeness)
       IN  fn_out' = [kind |-> "stage", by |-> "Styler", text |-> Join(r.words, <<" ">>), hist |-> r.hist]
    /\ UNCHANGED <<fn_in, table_vars, obj_vars, caller_vars>>

\* Tuner.apply_honorifics, lines 74-89, with the politeness already resolved
apply_honorifics_call ==
    /\ fn_in.kind = "conjugate"
    /\ fn_out = None
    /\ LET r == HonorificsFrom(fn_in.toks, 1, {}, HONORIFICS, fn_in.politeness)
       IN  fn_out' = [kind |-> "stage", by |-> "Tuner", text |-> Join(r.words, <<" ">>), hist |-> r.hist]
    /\ UNCHANGED <<fn_in, table_vars, obj_vars, caller_vars>>

NextStage == conjugate_call \/ apply_honorifics_call

SpecStage == InitStage /\ [][NextStage]_vars

----------------------------------------------------------------------------
(* The abbreviation stage called on its own, on any text and table *)

CleanupAlphabet == {"h", "e", "y"}

\* the longest text handed to the stage
MaxTextLen == 4

CleanupTexts == UNION {[1..k -> CleanupAlphabet] : k \in 0..MaxTextLen}

\* one entry; a later key made by an earlier value; a later key consumed by an earlier
\* entry; a value that holds its own key
CleanupTables ==
    { <<[key |-> <<"h", "e", "y">>, val |-> <<"h", "y">>]>>,
      <<[key |-> <<"h", "e", "y">>, val |-> <<"h", "y">>], [key |-> <<"h", "y">>, val |-> <<"y">>]>>,
      <<[key |-> <<"h", "e">>, val |-> <<"h">>], [key |-> <<"e", "y">>, val |-> <<"y", "e">>]>>,
      <<[key |-> <<"e">>, val |-> <<"e", "e">>]>> }

InitCleanup ==
    /\ cls \in {"Styler", "Tuner"}
    /\ RULES = CHOOSE r \in RuleTables : TRUE
    /\ HONORIFICS = CHOOSE r \in HonorificTables : TRUE
    /\ ABBREVIATIONS \in CleanupTables
    /\ IRREGULARS = CHOOSE r \in IrregularTables : TRUE
    /\ Fresh
    /\ Idle
    /\ fn_in \in [kind : {"abbreviate"}, text : CleanupTexts]
    /\ fn_out = None

\* Styler.abbreviate, lines 111-116, and Tuner.apply_abbreviations, lines 91-95, on a
\* cleared object whose self.out is the given text
abbreviate_call ==
    /\ fn_in.kind = "abbreviate"
    /\ fn_out = None
    /\ LET r == ApplyFrom(fn_in.text, {}, 1, ABBREVIATIONS)
       IN  fn_out' = [kind |-> "cleanup", text |-> r.text, hist |-> r.hist]
    /\ UNCHANGED <<fn_in, table_vars, obj_vars, caller_vars>>

NextCleanup == abbreviate_call

SpecCleanup == InitCleanup /\ [][NextCleanup]_vars

----------------------------------------------------------------------------
(* preprocess called on its own, once and then on its own result *)

PreAlphabet == {" ", "h", ".", "?", "!"}

\* the longest sentence handed to preprocess
MaxSentLen == 3

PreSentences == UNION {[1..k -> PreAlphabet] : k \in 0..MaxSentLen}

InitPre ==
    /\ cls \in {"Styler", "Tuner"}
    /\ RULES = CHOOSE r \in RuleTables : TRUE
    /\ HONORIFICS = CHOOSE r \in HonorificTables : TRUE
    /\ ABBREVIATIONS = CHOOSE r \in AbbreviationTables : TRUE
    /\ IRREGULARS = CHOOSE r \in IrregularTables : TRUE
    /\ Fresh
    /\ Idle
    /\ fn_in \in [kind : {"preprocess"}, sent : PreSentences]
    /\ fn_out = None

\* Styler.preprocess, lines 58-62, with self.args["sent"] the given sentence
preprocess_call ==
    /\ cls = "Styler"
    /\ fn_in.kind = "preprocess"
    /\ fn_out = None
    /\ fn_out' = [kind |-> "pre", first |-> Styler_preprocess_text(fn_in.sent),
                  text |-> Styler_preprocess_text(fn_in.sent), twice |-> FALSE]
    /\ UNCHANGED <<fn_in, table_vars, obj_vars, caller_vars>>

\* Tuner.preprocess, lines 65-66, with self.sent the given sentence
Tuner_preprocess_call ==
    /\ cls = "Tuner"
    /\ fn_in.kind = "preprocess"
    /\ fn_out = None
    /\ fn_out' = [kind |-> "pre", first |-> Tuner_preprocess_text(fn_in.sent),
                  text |-> Tuner_preprocess_text(fn_in.sent), twice |-> FALSE]
    /\ UNCHANGED <<fn_in, table_vars, obj_vars, caller_vars>>

\* preprocess on the text a first preprocess returned
preprocess_again ==
    /\ fn_out.kind = "pre"
    /\ ~fn_out.twice
    /\ fn_out' = [fn_out EXCEPT !.twice = TRUE,
                                !.text = IF cls = "Styler" THEN Styler_preprocess_text(fn_out.first)
                                                           ELSE Tuner_preprocess_text(fn_out.first)]
    /\ UNCHANGED <<fn_in, table_vars, obj_vars, caller_vars>>

NextPre == preprocess_call \/ Tuner_preprocess_call \/ preprocess_again

SpecPre == InitPre /\ [][NextPre]_vars

----------------------------------------------------------------------------
(* Properties *)

Finished(t) == status[t] \in {"done", "failed"}

\* the place of a step in the Styler's chain
StepIdx(step) == CHOOSE i \in 1..Len(StylerChain) : StylerChain[i] = step

\* the tokens the analyzer returned to caller t's invocation, one invocation at a time
Analyzed(t) == khaiii_analyze(Styler_preprocess_text(call[t].sent))

\* caller t's invocation on a Styler has been through check: it failed there or went on
Checked(t) ==
    /\ cls = "Styler"
    /\ \/ status[t] = "running" /\ pc[t] > StepIdx("check")
       \/ status[t] = "failed" /\ pc[t] >= StepIdx("check")
       \/ status[t] = "done"

FailedInCheck(t) == cls = "Styler" /\ status[t] = "failed" /\ pc[t] = StepIdx("check")

EFTokens(toks) == {i \in 1..Len(toks) : HasEFTag(toks[i])}

\* C1: two interleaved invocations with different (listener, environ) pairs on one
\* styler object do not interfere: when an invocation ends, the history, the three
\* substitution sets and the result it has in hand are those of the same invocation
\* executed alone.
C1_Isolation ==
    [][\A t \in Callers :
          (status[t] = "running" /\ status'[t] \in {"done", "failed"})
              => Observed(t)' = Alone(call[t])]_vars

\* C2: when no token has a morpheme tagged EF, also when a surface string holds the
\* characters "EF", the invocation fails in check with EFNotIncludedError and returns
\* nothing.
C2_NoEFTagRejected ==
    (Checked(1) /\ EFTokens(Analyzed(1)) = {})
        => /\ FailedInCheck(1)
           /\ err[1].kind = "EFNotIncludedError"
           /\ ret[1] = None

\* C3: with at least one EF token, the invocation fails with EFNotSupportedError
\* carrying the signature of an EF token that no honorific key matches when there is
\* one, and passes validation when every EF token's signature is matched by some key.
C3_Coverage ==
    (Checked(1) /\ EFTokens(Analyzed(1)) # {})
        => LET toks == Analyzed(1)
               offending == {Sig(toks[i]) : i \in {j \in EFTokens(toks) :
                                                     ~Supported(Sig(toks[j]), HONORIFICS)}}
           IN  IF offending # {}
               THEN /\ FailedInCheck(1)
                    /\ err[1].kind = "EFNotSupportedError"
                    /\ err[1].payload \in offending
               ELSE ~FailedInCheck(1)

\* the conjugation stage of the object's class, applied to a logged token list
StageConjugation(entry) ==
    LET level == Politeness(RULES, call[1].listener, call[1].environ)
        r == IF cls = "Styler" THEN ConjugateFrom(entry.toks, 1, {}, HONORIFICS, level)
                               ELSE HonorificsFrom(entry.toks, 1, {}, HONORIFICS, level)
    IN  Str(Join(r.words, <<" ">>))

\* C4: whenever an invocation completes successfully the history has exactly 4 entries,
\* in stage order: the analyzed tokens, the conjugation of the first entry, the
\* abbreviation of the second, the irregular normalization of the third; whatever
\* invocations were made before on the same object.
C4_HistoryLength ==
    status[1] = "done"
        => /\ Len(logs) = 4
           /\ logs[1].kind = "tokens"
           /\ logs[2] = StageConjugation(logs[1])
           /\ logs[3] = Str(ApplyFrom(logs[2].s, {}, 1, ABBREVIATIONS).text)
           /\ logs[4] = Str(ApplyFrom(logs[3].s, {}, 1, IRREGULARS).text)

\* a successful invocation made after a successful and a failed one
C4_Witness ==
    /\ status[1] = "done"
    /\ Len(logs) = 4
    /\ \E i, j \in 1..(Len(outcomes) - 1) : outcomes[i] = "done" /\ outcomes[j] = "failed"

\* C5: whatever invocations came before on the same object, an invocation ends as it
\* does on a fresh object: same outcome, same output string or error, same history and
\* same three substitution sets; after a failed invocation the next one is served.
C5_Determinism == Finished(1) => Observed(1) = Alone(call[1])

\* a successful invocation, with substitutions recorded, right after a failed one
C5_Witness ==
    /\ status[1] = "done"
    /\ Len(outcomes) >= 2
    /\ outcomes[Len(outcomes) - 1] = "failed"
    /\ history_conjugations # {}
    /\ history_irregulars # {}

\* the spec's reading of "matches": an occurrence of the pattern that starts at the
\* beginning of the signature or right after a "+", and ends at its end or right before a "+"
AnchoredOccurrence(p, s) ==
    \E i \in 1..(Len(s) + 1) :
        /\ StartsAt(s, p, i)
        /\ (i = 1 \/ s[i - 1] = "+")
        /\ (i + Len(p) - 1 = Len(s) \/ s[i + Len(p)] = "+")

\* C6: matched(p, s) is true exactly when s holds an occurrence of p anchored on "+"
\* boundaries at both ends; the characters of p stand for themselves.
C6_Anchoring ==
    fn_out.kind = "bool" => (fn_out.v <=> AnchoredOccurrence(fn_in.pattern, fn_in.string))

\* a pattern that occurs in the signature, at its start too, yet is not matched
C6_Witness ==
    /\ fn_out.kind = "bool"
    /\ ~fn_out.v
    /\ fn_in.pattern # <<>>
    /\ StartsAt(fn_in.string, fn_in.pattern, 1)
    /\ \E i \in 2..Len(fn_in.string) : StartsAt(fn_in.string, fn_in.pattern, i)

\* no honorific key matches the signature of any token
NoMatch(toks) ==
    \A i \in 1..Len(toks) : \A k \in 1..Len(HONORIFICS) : ~matched(HONORIFICS[k].key, Sig(toks[i]))

Lexes(toks) == [i \in 1..Len(toks) |-> toks[i].lex]

\* C7: if no honorific key matches the signature of any token, the conjugation stage
\* returns the tokens' lexical forms joined by single spaces and records no pair.
C7_NonChange ==
    (fn_out.kind = "stage" /\ NoMatch(fn_in.toks))
        => /\ fn_out.text = Join(Lexes(fn_in.toks), <<" ">>)
           /\ fn_out.hist = {}

\* the orchestrator's state after the first k steps of the chain
RECURSIVE StageAfter(_)
StageAfter(k) ==
    IF k = 0 THEN "START"
    ELSE CASE Chain[k] = "clear" -> "START"
           [] Chain[k] = "preprocess" -> "PREPROCESSED"
           [] Chain[k] = "analyze" -> "ANALYZED"
           [] Chain[k] = "check" -> "VALIDATED"
           [] Chain[k] = "conjugate" -> "CONJUGATED"
           [] Chain[k] = "abbreviate" -> "ABBREVIATED"
           [] Chain[k] = "apply_irregulars" -> "NORMALIZED"
           [] OTHER -> StageAfter(k - 1)

Stage(t) ==
    CASE status[t] = "idle" -> "IDLE"
      [] status[t] = "failed" -> "FAILED"
      [] status[t] = "done" -> "DONE"
      [] OTHER -> StageAfter(pc[t] - 1)

StageOrder ==
    <<"START", "PREPROCESSED", "ANALYZED", "VALIDATED", "CONJUGATED", "ABBREVIATED",
      "NORMALIZED", "DONE">>

Follows(a, b) == \E i \in 1..(Len(StageOrder) - 1) : StageOrder[i] = a /\ StageOrder[i + 1] = b

ValidationErrors == {"EFNotIncludedError", "EFNotSupportedError"}

KnownPair(t) == status[t] # "idle" /\ HasRule(RULES, call[t].listener, call[t].environ)

\* C8 as stated: FAILED is entered only from the validation check, so that an
\* invocation past validation never fails.
C8_SingleFailureExit ==
    (cls = "Styler" /\ status[1] = "failed") => pc[1] = StepIdx("check")

\* C8, amended: a Styler invocation goes through START, PREPROCESSED, ANALYZED,
\* VALIDATED, CONJUGATED, ABBREVIATED, NORMALIZED, DONE in this order, one stage at a
\* time and one step of the chain at a time; FAILED is entered from ANALYZED by the
\* validation check and from VALIDATED by the conjugation stage's rule lookup
\* (KeyError, the pair is not in the rule table); a step of an invocation past
\* validation whose pair is in the rule table never fails: it leads to the next step of
\* the chain, the last one to DONE.
C8_StageOrder ==
    [][cls = "Styler" =>
          /\ \/ Stage(1)' = Stage(1)
             \/ Follows(Stage(1), Stage(1)')
             \/ Stage(1) \in {"IDLE", "DONE", "FAILED"} /\ Stage(1)' = "START"
             \/ /\ Stage(1) = "ANALYZED" /\ Stage(1)' = "FAILED"
                /\ pc[1] = StepIdx("check") /\ err'[1].kind \in ValidationErrors
             \/ /\ Stage(1) = "VALIDATED" /\ Stage(1)' = "FAILED"
                /\ pc[1] = StepIdx("conjugate") /\ err'[1].kind = "KeyError"
                /\ ~KnownPair(1) /\ Len(logs) = 1
          /\ (status[1] = "running" /\ status'[1] = "running")
                => (pc'[1] = pc[1] + 1 /\ pc'[1] <= Len(Chain) + 1)
          /\ (status[1] = "running" /\ status'[1] = "done") => pc[1] = Len(Chain) + 1
          /\ (status[1] = "running" /\ pc[1] > StepIdx("check") /\ KnownPair(1))
                => status'[1] # "failed"]_vars

\* an invocation that passed validation, recorded its first history entry and failed
C8_Witness ==
    /\ cls = "Styler"
    /\ status[1] = "failed"
    /\ pc[1] = StepIdx("conjugate")
    /\ Len(logs) = 1
    /\ err[1].kind = "KeyError"

\* C9: when an invocation aborts with EFNotIncludedError or EFNotSupportedError, the
\* object holds no result of it or of an earlier invocation: the history is empty and
\* the three substitution sets are empty.
C9_NoPartialResults ==
    (cls = "Styler" /\ status[1] = "failed" /\ err[1].kind \in ValidationErrors)
        => /\ logs = <<>>
           /\ history_conjugations = {}
           /\ history_abbreviations = {}
           /\ history_irregulars = {}
           /\ ret[1] = None

\* a validation failure right after a successful invocation
C9_Witness ==
    /\ cls = "Styler"
    /\ status[1] = "failed"
    /\ err[1].kind = "EFNotSupportedError"
    /\ Len(outcomes) >= 2
    /\ outcomes[Len(outcomes) - 1] = "done"
    /\ logs = <<>>

\* C10 as stated: with a (listener, environ) pair that is not in the rule table, every
\* invocation fails with the missing-key error and with no other.
C10_AlwaysKeyError ==
    (cls = "Styler" /\ Finished(1) /\ ~KnownPair(1))
        => (status[1] = "failed" /\ err[1].kind = "KeyError")

\* C10, amended: with a pair that is not in the rule table an invocation never returns
\* an output string; it fails with KeyError, raised by the conjugation stage and naming
\* the missing key, exactly when the analyzer output passes validation, and with the
\* validation's own error otherwise.
C10_UnknownRuleKey ==
    (cls = "Styler" /\ Finished(1) /\ ~KnownPair(1))
        => /\ status[1] = "failed"
           /\ ret[1] = None
           /\ IF check_result(Analyzed(1), HONORIFICS) = NoError
              THEN /\ err[1] = Raised("KeyError", <<MissingKey(RULES, call[1].listener, call[1].environ)>>)
                   /\ pc[1] = StepIdx("conjugate")
              ELSE /\ err[1] = check_result(Analyzed(1), HONORIFICS)
                   /\ pc[1] = StepIdx("check")

\* a known listener in an environment the table does not hold for it
C10_Witness ==
    /\ cls = "Styler"
    /\ status[1] = "failed"
    /\ err[1].kind = "KeyError"
    /\ call[1].listener \in DOMAIN RULES
    /\ ~KnownPair(1)

\* the text the table's entry k meets when its turn comes
WorkingText(text, table, k) == ApplyFrom(text, {}, 1, SubSeq(table, 1, k - 1)).text

\* entry k of the table is applied: its key occurs in the text it meets
Applied(text, table, k) == Contains(WorkingText(text, table, k), table[k].key)

Pair(table, k) == <<table[k].key, table[k].val>>

\* C11 as stated: for every entry (k, v) of the abbreviation table, if the conjugation
\* output contains k then the abbreviation output contains v and the abbreviation set
\* contains the pair (k, v).
C11_AnyEntry ==
    fn_out.kind = "cleanup"
        => \A k \in 1..Len(ABBREVIATIONS) :
               Contains(fn_in.text, ABBREVIATIONS[k].key)
                   => /\ Contains(fn_out.text, ABBREVIATIONS[k].val)
                      /\ Pair(ABBREVIATIONS, k) \in fn_out.hist

\* C11, amended: the entries are applied in table order to the working text. The pair
\* (k, v) is in the abbreviation set exactly when k occurs in the text its entry meets
\* (for the first entry, the conjugation output); the text then contains v right after
\* its turn, and the stage's output contains v when no later entry is applied. With a
\* table of one entry this is the statement above.
C11_InTurn ==
    fn_out.kind = "cleanup"
        => /\ \A k \in 1..Len(ABBREVIATIONS) :
                 /\ Pair(ABBREVIATIONS, k) \in fn_out.hist <=> Applied(fn_in.text, ABBREVIATIONS, k)
                 /\ Applied(fn_in.text, ABBREVIATIONS, k)
                       => /\ Contains(WorkingText(fn_in.text, ABBREVIATIONS, k + 1), ABBREVIATIONS[k].val)
                          /\ (\A j \in (k + 1)..Len(ABBREVIATIONS) : ~Applied(fn_in.text, ABBREVIATIONS, j))
                                => Contains(fn_out.text, ABBREVIATIONS[k].val)
           /\ fn_out.hist \subseteq {Pair(ABBREVIATIONS, k) : k \in 1..Len(ABBREVIATIONS)}
           /\ WorkingText(fn_in.text, ABBREVIATIONS, 1) = fn_in.text
           /\ Len(ABBREVIATIONS) = 1 =>
                 (Contains(fn_in.text, ABBREVIATIONS[1].key)
                     => /\ Contains(fn_out.text, ABBREVIATIONS[1].val)
                        /\ Pair(ABBREVIATIONS, 1) \in fn_out.hist)

\* a key that the conjugation output holds and whose value a later entry rewrote
C11_Witness ==
    /\ fn_out.kind = "cleanup"
    /\ Len(ABBREVIATIONS) = 2
    /\ Contains(fn_in.text, ABBREVIATIONS[1].key)
    /\ Pair(ABBREVIATIONS, 1) \in fn_out.hist
    /\ Pair(ABBREVIATIONS, 2) \in fn_out.hist
    /\ ~Contains(fn_out.text, ABBREVIATIONS[1].val)

\* C12 as stated: on every successful invocation the returned string is the fourth
\* history entry, whether or not the input sentence ended with ".".
C12_ReturnsFourthEntry ==
    status[1] = "done" => (Len(logs) = 4 /\ ret[1] = logs[4])

\* text[:-1]
DropLast(text) == SubSeq(text, 1, Len(text) - 1)

\* C12, amended: a successful Styler invocation returns the fourth history entry, no
\* step after the irregular normalization alters it; a successful Tuner invocation
\* returns the fourth entry when the input sentence ended with ".", and the fourth
\* entry without its last character otherwise.
C12_ReturnsLastStage ==
    status[1] = "done"
        => /\ Len(logs) = 4
           /\ logs[4].kind = "str"
           /\ ret[1] = IF cls = "Styler" \/ EndsWith(call[1].sent, <<".">>)
                       THEN logs[4]
                       ELSE Str(DropLast(logs[4].s))

\* a Tuner invocation, on a sentence with no final ".", that returned less than the
\* fourth history entry
C12_Witness ==
    /\ cls = "Tuner"
    /\ status[1] = "done"
    /\ ~EndsWith(call[1].sent, <<".">>)
    /\ Len(logs) = 4
    /\ EndsWith(logs[4].s, <<".">>)
    /\ ret[1] = Str(DropLast(logs[4].s))

EndsWithMark(text) == text # <<>> /\ text[Len(text)] \in {".", "?", "!"}

\* C13: the preprocessed text is the sentence with the surrounding whitespace trimmed,
\* followed by "." exactly when the trimmed sentence ends with none of ".", "?", "!";
\* it always ends with one of the three, and preprocessing it again changes nothing.
C13_Preprocessing ==
    fn_out.kind = "pre"
        => LET trimmed == Strip(fn_in.sent)
           IN  /\ fn_out.first = IF EndsWithMark(trimmed) THEN trimmed ELSE trimmed \o <<".">>
               /\ EndsWithMark(fn_out.first)
               /\ fn_out.twice => fn_out.text = fn_out.first

\* C14: no step of an invocation, successful or failed, whatever the interleaving,
\* changes the rule, honorific, abbreviation or irregular table, the order of the
\* entries included.
C14_TablesFrozen ==
    [][UNCHANGED <<RULES, HONORIFICS, ABBREVIATIONS, IRREGULARS>>]_vars

\* two interleaved invocations have ended, the tables consulted and pairs recorded
C14_Witness ==
    /\ \A t \in Callers : status[t] \in {"done", "failed"}
    /\ history_conjugations # {}
    /\ history_abbreviations # {}
    /\ Len(HONORIFICS) = 2
    /\ Len(ABBREVIATIONS) = 1

\* the working signature of a token when the turn of entry k of the honorific table
\* comes, in the stage of the given class
WorkingSig(by, token, k, politeness) ==
    IF by = "Styler"
    THEN TuneFrom(Sig(token), {}, 1, SubSeq(HONORIFICS, 1, k - 1), politeness).tuned
    ELSE TuneAllFrom(Sig(token), {}, 1, SubSeq(HONORIFICS, 1, k - 1), politeness).tuned

\* the keys that match the working signature of some token in their turn, each with its
\* replacement for the politeness level
MatchedPairs(by, toks, politeness) ==
    { <<HONORIFICS[k].key, HONORIFICS[k].val[politeness]>> :
        k \in {j \in 1..Len(HONORIFICS) :
                 \E i \in 1..Len(toks) :
                     AnchoredOccurrence(HONORIFICS[j].key, WorkingSig(by, toks[i], j, politeness))} }

\* C15: after the conjugation stage the conjugation set holds the pair (key, replacement)
\* exactly when key matched the working signature of at least one token in its turn and
\* replacement is the key's replacement for the resolved politeness level.
C15_HistoryExact ==
    fn_out.kind = "stage" => fn_out.hist = MatchedPairs(fn_out.by, fn_in.toks, fn_in.politeness)

\* the occurrences of old that are anchored on "+" boundaries at both ends replaced by
\* new, from 1-based position i on; every other character kept
RECURSIVE AnchoredReplaceFrom(_, _, _, _)
AnchoredReplaceFrom(s, i, old, new) ==
    IF i > Len(s) THEN <<>>
    ELSE IF /\ StartsAt(s, old, i)
            /\ (i = 1 \/ s[i - 1] = "+")
            /\ (i + Len(old) - 1 = Len(s) \/ s[i + Len(old)] = "+")
         THEN new \o AnchoredReplaceFrom(s, i + Len(old), old, new)
         ELSE <<s[i]>> \o AnchoredReplaceFrom(s, i + 1, old, new)

\* the keys tried in table order from entry k on, each rewriting its anchored occurrences only
RECURSIVE AnchoredTuneFrom(_, _, _)
AnchoredTuneFrom(tuned, k, politeness) ==
    IF k > Len(HONORIFICS) THEN tuned
    ELSE AnchoredTuneFrom(
             AnchoredReplaceFrom(tuned, 1, HONORIFICS[k].key, HONORIFICS[k].val[politeness]),
             k + 1, politeness)

\* C16: the conjugation stage rewrites only the occurrences of a matched key that are
\* anchored on "+" boundaries; the text of the key inside a single morpheme signature
\* is left as it is, so that the word emitted is the one anchored rewriting gives.
C16_AnchoredRewriteOnly ==
    (fn_out.kind = "stage" /\ fn_out.by = "Styler")
        => fn_out.text =
             Join([i \in 1..Len(fn_in.toks) |->
                      Emit(fn_in.toks[i].lex, MorphStrs(fn_in.toks[i]),
                           AnchoredTuneFrom(Sig(fn_in.toks[i]), 1, fn_in.politeness))],
                  <<" ">>)

\* the pairs of the entries of a table that are applied to a text, in table order
AppliedPairs(text, table) == {Pair(table, k) : k \in {j \in 1..Len(table) : Applied(text, table, j)}}

\* C17: on a successful invocation the third history entry is the abbreviation table
\* applied in table order to the second, the fourth is the irregular table applied in
\* table order to the third and nothing more; a cleanup set holds a pair exactly when
\* its key occurred in the working text in its turn.
C17_CleanupChain ==
    status[1] = "done"
        => /\ Len(logs) = 4
           /\ \A i \in 2..4 : logs[i].kind = "str"
           /\ logs[3].s = WorkingText(logs[2].s, ABBREVIATIONS, Len(ABBREVIATIONS) + 1)
           /\ logs[4].s = WorkingText(logs[3].s, IRREGULARS, Len(IRREGULARS) + 1)
           /\ history_abbreviations = AppliedPairs(logs[2].s, ABBREVIATIONS)
           /\ history_irregulars = AppliedPairs(logs[3].s, IRREGULARS)

\* both passes rewrote the text, and the irregular pass left a text that holds the key
\* of an abbreviation
C17_Witness ==
    /\ status[1] = "done"
    /\ Len(logs) = 4
    /\ history_abbreviations # {}
    /\ history_irregulars # {}
    /\ \E k \in 1..Len(ABBREVIATIONS) : Contains(logs[4].s, ABBREVIATIONS[k].key)

\* C18: a Styler invocation that passed validation and completed has a non-empty
\* conjugation set: for every token that validation counted as an EF token, the first
\* honorific key in table order that matches its signature is recorded with its
\* replacement for the resolved politeness level.
C18_ValidatedConjugates ==
    (cls = "Styler" /\ status[1] = "done")
        => /\ history_conjugations # {}
           /\ LET toks == Analyzed(1)
                   level == Politeness(RULES, call[1].listener, call[1].environ)
               IN  /\ Efs(toks) # <<>>
                   /\ \A i \in 1..Len(toks) :
                         IsEF(Sig(toks[i]))
                             => LET hits == {k \in 1..Len(HONORIFICS) :
                                                AnchoredOccurrence(HONORIFICS[k].key, Sig(toks[i]))}
                                    first == CHOOSE k \in hits : \A j \in hits : k <= j
                                IN  /\ hits # {}
                                    /\ <<HONORIFICS[first].key, HONORIFICS[first].val[level]>>
                                           \in history_conjugations

\* a completed invocation whose conjugation changed no word and still recorded a pair
C18_Witness ==
    /\ cls = "Styler"
    /\ status[1] = "done"
    /\ Len(logs) = 4
    /\ logs[2] = Str(Join(Lexes(logs[1].toks), <<" ">>))
    /\ history_conjugations # {}

====
